---------------------------- MODULE Spec2Model ----------------------------
(***************************************************************************)
(* A model of the RPC core of eovim (src/nvim.c, src/pack.c): the table of *)
(* running nvim instances, the per-instance request id counter and list of *)
(* pending requests, the ecore process event handlers and the typed        *)
(* decoders applied to the payload of a response.                          *)
(***************************************************************************)
EXTENDS Integers, Sequences, FiniteSets, TLC

(***************************************************************************)
(* Bounds of the model.                                                    *)
(***************************************************************************)
\* Calls to nvim_get_next_uid explored per instance (guards the counter).
MaxUid == 2

(***************************************************************************)
(* msgpack objects (msgpack_object): a record with a `type' field and the  *)
(* member of the `via' union that the type selects.                        *)
(***************************************************************************)
ObjNil == [type |-> "NIL"]

ObjBool(b) == [type |-> "BOOLEAN", boolean |-> b]

ObjPos(n) == [type |-> "POSITIVE_INTEGER", u64 |-> n]

ObjNeg(n) == [type |-> "NEGATIVE_INTEGER", i64 |-> n]

ObjStr(s) == [type |-> "STR", str |-> s]

ObjArray(a) == [type |-> "ARRAY", array |-> a]

ObjExt(t, p) == [type |-> "EXT", ext_type |-> t, ptr |-> p]

(***************************************************************************)
(* msgpack_unpack, on the formats the model's chunks are written in:       *)
(* positive fixint 0x00-0x7f, fixarray 0x90-0x9f, fixstr 0xa0-0xbf, nil    *)
(* 0xc0, false 0xc2, true 0xc3, fixext1 0xd4, fixext2 0xd5, negative       *)
(* fixint 0xe0-0xff.  0xc1 is the byte msgpack never uses (parse error).   *)
(* template_execute answers e > 0 (one object read, `next' is the offset   *)
(* after it), e = 0 (the bytes end inside the object) or e < 0.            *)
(***************************************************************************)
RECURSIVE template_execute(_, _)
RECURSIVE template_array(_, _, _, _)

ExecDone(o, n) == [e |-> 1, obj |-> o, next |-> n]

ExecContinue == [e |-> 0, obj |-> ObjNil, next |-> 0]

ExecError == [e |-> -1, obj |-> ObjNil, next |-> 0]

template_array(data, off, n, acc) ==
    IF n = 0 THEN ExecDone(ObjArray(acc), off)
    ELSE LET r == template_execute(data, off)
         IN  IF r.e # 1 THEN r
             ELSE template_array(data, r.next, n - 1, Append(acc, r.obj))

template_execute(data, off) ==
    IF off > Len(data) THEN ExecContinue
    ELSE LET h == data[off]
         IN  CASE h <= 127 -> ExecDone(ObjPos(h), off + 1)
               [] h >= 224 -> ExecDone(ObjNeg(h - 256), off + 1)
               [] h >= 144 /\ h <= 159 -> template_array(data, off + 1, h - 144, <<>>)
               [] h >= 160 /\ h <= 191 ->
                    IF off + (h - 160) > Len(data) THEN ExecContinue
                    ELSE ExecDone(ObjStr(SubSeq(data, off + 1, off + (h - 160))),
                                  off + (h - 160) + 1)
               [] h = 192 -> ExecDone(ObjNil, off + 1)
               [] h = 194 -> ExecDone(ObjBool(FALSE), off + 1)
               [] h = 195 -> ExecDone(ObjBool(TRUE), off + 1)
               [] h = 212 \/ h = 213 ->
                    IF off + 1 + (h - 211) > Len(data) THEN ExecContinue
                    ELSE ExecDone(ObjExt(data[off + 1],
                                         SubSeq(data, off + 2, off + 1 + (h - 211))),
                                  off + 2 + (h - 211))
               [] OTHER -> ExecError

\* msgpack_unpack(data, len, NULL, zone, &result): `result' is written only
\* when one whole object was read; `written' says whether it was.
msgpack_unpack(data) ==
    IF Len(data) = 0
    THEN [ret |-> "MSGPACK_UNPACK_CONTINUE", written |-> FALSE, result |-> ObjNil]
    ELSE LET r == template_execute(data, 1)
         IN  CASE r.e < 0 ->
                    [ret |-> "MSGPACK_UNPACK_PARSE_ERROR", written |-> FALSE,
                     result |-> ObjNil]
               [] r.e = 0 ->
                    [ret |-> "MSGPACK_UNPACK_CONTINUE", written |-> FALSE,
                     result |-> ObjNil]
               [] OTHER ->
                    [ret |-> IF r.next <= Len(data)
                             THEN "MSGPACK_UNPACK_EXTRA_BYTES"
                             ELSE "MSGPACK_UNPACK_SUCCESS",
                     written |-> TRUE, result |-> r.obj]

(***************************************************************************)
(* Typed decoders of pack.c.  `args' is the sequence of elements of a      *)
(* msgpack_object_array.  A decoder that reads a member of the `via' union *)
(* that the element's type did not set reads indeterminate bytes: `junk'   *)
(* is the value those bytes happen to hold.                                *)
(***************************************************************************)
position_make(x, y) == [x |-> x, y |-> y]

\* obj.via.i64
via_i64(obj, junk) ==
    CASE obj.type = "POSITIVE_INTEGER" -> obj.u64
      [] obj.type = "NEGATIVE_INTEGER" -> obj.i64
      [] OTHER -> junk

\* A pack_boolean_get that reads the element before it looks at the size.
pack_boolean_get_reads_unchecked(args) == {1}

\* The elements of `args' that pack_boolean_get reads (type or value).
pack_boolean_get_reads(args) ==
    IF Len(args) # 1 THEN {} ELSE {1}

pack_boolean_get(args, junk) ==
    IF Len(args) # 1 THEN FALSE
    ELSE IF args[1].type # "BOOLEAN" THEN FALSE
    ELSE args[1].boolean

\* The elements of `args' that pack_position_get reads (type or value).
pack_position_get_reads(args) ==
    IF Len(args) # 2 THEN {} ELSE {1, 2}

\* A pack_position_get that gives the elements to position_make in the
\* other order.
pack_position_get_swapped(args, junk) ==
    IF Len(args) # 2 THEN position_make(-1, -1)
    ELSE IF args[1].type # "POSITIVE_INTEGER" /\ args[2].type # "POSITIVE_INTEGER"
         THEN position_make(-1, -1)
    ELSE position_make(via_i64(args[2], junk), via_i64(args[1], junk))

pack_position_get(args, junk) ==
    IF Len(args) # 2 THEN position_make(-1, -1)
    ELSE IF args[1].type # "POSITIVE_INTEGER" /\ args[2].type # "POSITIVE_INTEGER"
         THEN position_make(-1, -1)
    ELSE position_make(via_i64(args[1], junk), via_i64(args[2], junk))

\* The elements of `args' that pack_int_get reads.
pack_int_get_reads(args) ==
    IF Len(args) # 1 THEN {} ELSE {1}

pack_int_get(args, junk) ==
    IF Len(args) # 1 THEN 0
    ELSE IF args[1].type # "POSITIVE_INTEGER" /\ args[1].type # "NEGATIVE_INTEGER"
         THEN 0
    ELSE via_i64(args[1], junk)

\* The elements of `args' that pack_stringshare_get reads.
pack_stringshare_get_reads(args) ==
    IF Len(args) # 1 THEN {} ELSE {1}

\* NULL, or the stringshare of the bytes of the string; `failed' when
\* eina_stringshare_add_length returns NULL.
pack_stringshare_get(args, failed) ==
    IF Len(args) # 1 THEN [null |-> TRUE, str |-> <<>>]
    ELSE IF args[1].type # "STR" THEN [null |-> TRUE, str |-> <<>>]
    ELSE IF failed THEN [null |-> TRUE, str |-> <<>>]
    ELSE [null |-> FALSE, str |-> args[1].str]

\* e_nvim_object
E_NVIM_OBJECT_BUFFER == 1

E_NVIM_OBJECT_WINDOW == 2

E_NVIM_OBJECT_TAB == 3

\* The value of a t_int that is no handle.
T_INT_INVALID == -1

\* The value of an integer whose bytes, lowest first, are `bytes'.
RECURSIVE LittleEndian(_)
LittleEndian(bytes) ==
    IF bytes = <<>> THEN 0 ELSE Head(bytes) + 256 * LittleEndian(Tail(bytes))

\* sizeof(t_int): `id' is printed with PRIx64.
sizeof_t_int == 8

\* The first n elements of a sequence, or all of it when it is shorter.
Prefix(seq, n) == SubSeq(seq, 1, IF Len(seq) < n THEN Len(seq) ELSE n)

\* _read_object_id: t_int id = 0; memcpy(&id, obj->ptr, obj->size), on a
\* little-endian machine.  The bytes of a payload longer than the t_int go
\* to the memory after `id'.
_read_object_id(obj) == LittleEndian(Prefix(obj.ptr, sizeof_t_int))

\* The number of bytes the memcpy of _read_object_id writes at &id.
_read_object_id_copied(obj) == Len(obj.ptr)

\* The indexes of obj->ptr that the memcpy of _read_object_id reads.
_read_object_id_ptr_reads(obj) == 0..(Len(obj.ptr) - 1)

pack_object_get(args) == T_INT_INVALID

pack_window_get(args) == T_INT_INVALID

\* The elements of `args' that pack_buffer_get reads.
pack_buffer_get_reads(args) ==
    IF Len(args) # 1 THEN {} ELSE {1}

\* pack_buffer_get gets as far as _read_object_id.
pack_buffer_get_accepts(args) ==
    /\ Len(args) = 1
    /\ args[1].type = "EXT"
    /\ args[1].ext_type = E_NVIM_OBJECT_BUFFER

\* A pack_buffer_get that does not look at the subtype of the EXT.
pack_buffer_get_any_subtype(args) ==
    IF Len(args) # 1 THEN T_INT_INVALID
    ELSE IF args[1].type # "EXT" THEN T_INT_INVALID
    ELSE _read_object_id(args[1])

pack_buffer_get(args) ==
    IF Len(args) # 1 THEN T_INT_INVALID
    ELSE IF args[1].type # "EXT" THEN T_INT_INVALID
    ELSE IF args[1].ext_type # E_NVIM_OBJECT_BUFFER THEN T_INT_INVALID
    ELSE _read_object_id(args[1])

pack_tabpage_get(args) == T_INT_INVALID

\* _pack_list_of_objects_get: the ids of the elements in order, or NULL
\* (the empty Eina_List) when an element is no EXT.
_pack_list_of_objects_get(args) ==
    IF \E i \in DOMAIN args : args[i].type # "EXT" THEN <<>>
    ELSE [i \in DOMAIN args |-> _read_object_id(args[i])]

\* The elements of `args' that the loop of _pack_list_of_objects_get
\* reads: those up to the first that is no EXT.
_pack_list_of_objects_get_reads(args) ==
    {i \in DOMAIN args : \A j \in 1..(i - 1) : args[j].type = "EXT"}

\* The elements of which the loop reads the payload.
_pack_list_of_objects_get_decoded(args) ==
    {i \in DOMAIN args : \A j \in 1..i : args[j].type = "EXT"}

\* The indexes of obj->ptr read for an element: by the memcpy of
\* _read_object_id, and by the INF line, which prints obj->ptr[0],
\* obj->ptr[1] and obj->ptr[2].
_pack_list_of_objects_get_ptr_reads(obj) ==
    _read_object_id_ptr_reads(obj) \cup {0, 1, 2}

pack_tabpages_get(args) == _pack_list_of_objects_get(args)

pack_windows_get(args) == _pack_list_of_objects_get(args)

pack_buffers_get(args) == _pack_list_of_objects_get(args)

\* The loop of pack_strings_get from element i on, `list' being the list
\* so far.  `failed' are the elements for which eina_stringshare_add_length
\* returns NULL.
RECURSIVE pack_strings_loop(_, _, _, _)
pack_strings_loop(args, failed, i, list) ==
    IF i > Len(args) THEN list
    ELSE IF args[i].type # "STR" THEN pack_strings_loop(args, failed, i + 1, list)
    ELSE IF i \in failed THEN pack_strings_loop(args, failed, i + 1, list)
    ELSE pack_strings_loop(args, failed, i + 1, Append(list, args[i].str))

\* A pack_strings_get that gives up at an element that is no string, as
\* _pack_list_of_objects_get does.
pack_strings_get_aborting(args, failed) ==
    IF \E i \in DOMAIN args : args[i].type # "STR" THEN <<>>
    ELSE pack_strings_loop(args, failed, 1, <<>>)

pack_strings_get(args, failed) == pack_strings_loop(args, failed, 1, <<>>)

\* The elements of `args' that pack_strings_get reads.
pack_strings_get_reads(args) == DOMAIN args

(***************************************************************************)
(* Requests.  A pending request (s_request) holds its uid and the kind of  *)
(* result its handler takes, which selects the decoder of its response.    *)
(***************************************************************************)
RequestTypes == {"boolean", "position"}

s_request(uid, type) == [uid |-> uid, type |-> type]

\* The decoder bound to a request of the given type.
request_decode(type, out_args, junk) ==
    CASE type = "boolean" -> pack_boolean_get(out_args, junk)
      [] type = "position" -> pack_position_get(out_args, junk)
      [] type = "int" -> pack_int_get(out_args, junk)

\* nvim_api_response_dispatch(nvim, req, out_args): decodes out_args with
\* the decoder of req and calls the handler of req with the result.  The
\* handlers of nvim.c return EINA_TRUE and change nothing; the call is
\* recorded as [req, data].
nvim_api_response_dispatch(req, out_args, junk) ==
    [req |-> req, data |-> request_decode(req.type, out_args, junk)]

\* A nvim_get_next_uid that returns the counter and does not increment it.
nvim_get_next_uid_no_increment(request_id) ==
    [uid |-> request_id, request_id |-> request_id]

\* nvim_get_next_uid: return nvim->request_id++
nvim_get_next_uid(request_id) ==
    [uid |-> request_id, request_id |-> request_id + 1]

\* A _nvim_request_find that does not compare the uid: the head of the list.
_nvim_request_find_head(reqs, req_id) ==
    IF Len(reqs) > 0 THEN 1 ELSE 0

\* A _nvim_request_find whose loop ends on the last item, not on NULL, when
\* no uid matches.
_nvim_request_find_last(reqs, req_id) ==
    IF \E i \in 1..Len(reqs) : reqs[i].uid = req_id
    THEN CHOOSE i \in 1..Len(reqs) :
            /\ reqs[i].uid = req_id
            /\ \A j \in 1..(i - 1) : reqs[j].uid # req_id
    ELSE Len(reqs)

\* _nvim_request_find: the first item of the list whose uid is req_id
\* (its index), or 0 for NULL.
_nvim_request_find(reqs, req_id) ==
    IF \E i \in 1..Len(reqs) : reqs[i].uid = req_id
    THEN CHOOSE i \in 1..Len(reqs) :
            /\ reqs[i].uid = req_id
            /\ \A j \in 1..(i - 1) : reqs[j].uid # req_id
    ELSE 0

\* An eina_list_remove_list whose result is dropped: the item stays.
eina_list_remove_list_kept(list, item) == list

\* An eina_list_remove_list that cuts the list at the item.
eina_list_remove_list_cut(list, item) == SubSeq(list, 1, item - 1)

\* eina_list_remove_list(nvim->requests, req_item)
eina_list_remove_list(list, item) ==
    SubSeq(list, 1, item - 1) \o SubSeq(list, item + 1, Len(list))

\* What a handler did: the list of pending requests it leaves, the handler
\* calls it made and the messages it logged.
Outcome(reqs, calls, log) == [requests |-> reqs, calls |-> calls, log |-> log]

\* The elements of the message that _handle_request_response reads.
_handle_request_response_reads(reqs, args) ==
    IF args[2].type # "POSITIVE_INTEGER" THEN {2}
    ELSE IF _nvim_request_find(reqs, args[2].u64) = 0 THEN {2}
    ELSE {2, 4}

\* A _handle_request_response that checks the type of the fourth field
\* before it removes the request from the list.
_handle_request_response_checked_first(reqs, args, junk) ==
    IF args[2].type # "POSITIVE_INTEGER"
    THEN Outcome(reqs, <<>>, <<"ERR">>)
    ELSE LET req_id == args[2].u64
             req_item == _nvim_request_find(reqs, req_id)
         IN  IF req_item = 0
             THEN Outcome(reqs, <<>>, <<"CRI">>)
             ELSE IF args[4].type # "ARRAY"
             THEN Outcome(reqs, <<>>, <<"DBG", "ERR">>)
             ELSE Outcome(eina_list_remove_list(reqs, req_item),
                          <<nvim_api_response_dispatch(reqs[req_item], args[4].array, junk)>>,
                          <<"DBG">>)

_handle_request_response(reqs, args, junk) ==
    IF args[2].type # "POSITIVE_INTEGER"
    THEN Outcome(reqs, <<>>, <<"ERR">>)
    ELSE LET req_id == args[2].u64
             req_item == _nvim_request_find(reqs, req_id)
         IN  IF req_item = 0
             THEN Outcome(reqs, <<>>, <<"CRI">>)
             ELSE LET req == reqs[req_item]
                      rest == eina_list_remove_list(reqs, req_item)
                  IN  IF args[4].type # "ARRAY"
                      THEN Outcome(rest, <<>>, <<"DBG", "ERR">>)
                      ELSE Outcome(rest,
                                   <<nvim_api_response_dispatch(req, args[4].array, junk)>>,
                                   <<"DBG">>)

\* A data_dispatch whose case 2 falls through to the handling of a response.
data_dispatch_fallthrough(reqs, deserialized, junk) ==
    IF deserialized.type # "ARRAY"
    THEN Outcome(reqs, <<>>, <<"ERR">>)
    ELSE LET args == deserialized.array
         IN  IF Len(args) # 4
             THEN Outcome(reqs, <<>>, <<"ERR">>)
             ELSE IF args[1].type # "POSITIVE_INTEGER"
             THEN Outcome(reqs, <<>>, <<"ERR">>)
             ELSE CASE args[1].u64 \in {1, 2} -> _handle_request_response(reqs, args, junk)
                    [] OTHER -> Outcome(reqs, <<>>, <<"ERR">>)

\* The elements of `deserialized' that _nvim_received_data_cb reads from
\* line 166 on.
data_dispatch_reads(reqs, deserialized) ==
    IF deserialized.type # "ARRAY" THEN {}
    ELSE LET args == deserialized.array
         IN  IF Len(args) # 4 THEN {}
             ELSE IF args[1].type # "POSITIVE_INTEGER" THEN {1}
             ELSE IF args[1].u64 = 1
                  THEN {1} \cup _handle_request_response_reads(reqs, args)
             ELSE {1}

\* A data_dispatch that takes an array of four elements or more.
data_dispatch_any_size(reqs, deserialized, junk) ==
    IF deserialized.type # "ARRAY"
    THEN Outcome(reqs, <<>>, <<"ERR">>)
    ELSE LET args == deserialized.array
         IN  IF Len(args) < 4
             THEN Outcome(reqs, <<>>, <<"ERR">>)
             ELSE IF args[1].type # "POSITIVE_INTEGER"
             THEN Outcome(reqs, <<>>, <<"ERR">>)
             ELSE CASE args[1].u64 = 1 -> _handle_request_response(reqs, args, junk)
                    [] args[1].u64 = 2 -> Outcome(reqs, <<>>, <<"ERR">>)
                    [] OTHER -> Outcome(reqs, <<>>, <<"ERR">>)

\* _nvim_received_data_cb from line 166 on: what is done with the value of
\* `deserialized'.
data_dispatch(reqs, deserialized, junk) ==
    IF deserialized.type # "ARRAY"
    THEN Outcome(reqs, <<>>, <<"ERR">>)
    ELSE LET args == deserialized.array
         IN  IF Len(args) # 4
             THEN Outcome(reqs, <<>>, <<"ERR">>)
             ELSE IF args[1].type # "POSITIVE_INTEGER"
             THEN Outcome(reqs, <<>>, <<"ERR">>)
             ELSE CASE args[1].u64 = 1 -> _handle_request_response(reqs, args, junk)
                    [] args[1].u64 = 2 -> Outcome(reqs, <<>>, <<"ERR">>)
                    [] OTHER -> Outcome(reqs, <<>>, <<"ERR">>)

(***************************************************************************)
(* Chunks of bytes the process may write to its standard output.           *)
(***************************************************************************)
\* [1, id, nil, payload]
ResponseBytes(id, payload) == <<148, 1, id, 192>> \o payload

\* [true], [5], [3, 7], nil
Payloads == {<<145, 195>>, <<145, 5>>, <<146, 3, 7>>, <<192>>}

Chunks ==
    {ResponseBytes(id, p) : id \in 0..MaxUid, p \in Payloads}
    \cup {ResponseBytes(0, <<145, 195>>) \o ResponseBytes(1, <<145, 195>>)}
    \cup { <<148, 2, 0, 192, 144>>,         \* [2, 0, nil, []]
           <<147, 2, 161, 101, 144>>,       \* [2, "e", []]
           <<148, 3, 0, 192, 144>>,         \* [3, 0, nil, []]
           <<148, 195, 0, 192, 144>>,       \* [true, 0, nil, []]
           <<148, 1, 195, 192, 144>>,       \* [1, true, nil, []]
           <<148, 1, 0, 161, 101, 145, 195>>, \* [1, 0, "e", [true]]
           <<149, 1, 0, 192, 145, 195, 192>>, \* [1, 0, nil, [true], nil]
           <<5>>,                           \* 5
           <<148, 1, 0>>,                   \* truncated after two fields
           <<193>> }                        \* the byte msgpack never uses

\* msgpack_unpack of every chunk.
Unpacked == [c \in Chunks |-> msgpack_unpack(c)]

\* The values `deserialized', which is not initialised, may hold when
\* msgpack_unpack did not write it: what an earlier call of the handler left
\* on the stack (a response with a one-element payload, or a number).
Uninitialized ==
    {Unpacked[c].result : c \in {ResponseBytes(id, <<145, 195>>) : id \in 0..MaxUid}
                                \cup { <<5>> }}

\* The values the bytes of a `via' member may hold when the type is another.
Junk == {0}

VARIABLES
    inst,        \* the s_nvim: "none", "live" (in _nvim_instances), "unreg", "freed"
    exe,         \* the nvim process: "none", "running", "exited"
    handlers,    \* _event_handlers are registered
    request_id,  \* nvim->request_id
    requests,    \* nvim->requests
    crashed,     \* the program dereferenced NULL
    res,         \* the heap blocks held: "nvim", "sbuffer", "mempool"
    allocated,   \* history: the values nvim_get_next_uid returned
    issued,      \* history: the requests registered
    delivered,   \* history: the handler calls, [req, data]
    event,       \* history: the last operation and what it saw
    dec_args,    \* the msgpack_object_array given to a decoder of pack.c
    dec_junk,    \* what the bytes of an unset `via' member hold
    dec_ret      \* the decoder called and what it returned

vars == <<inst, exe, handlers, request_id, requests, crashed, res,
          allocated, issued, delivered, event, dec_args, dec_junk, dec_ret>>

\* The variables of a decoder call.
decoder == <<dec_args, dec_junk, dec_ret>>

\* No decoder has been called.
NotCalled == [fn |-> "none"]

\* The state after nvim_init() succeeded.
Init ==
    /\ inst = "none"
    /\ exe = "none"
    /\ handlers = TRUE
    /\ request_id = 0
    /\ requests = <<>>
    /\ crashed = FALSE
    /\ res = {}
    /\ allocated = <<>>
    /\ issued = <<>>
    /\ delivered = <<>>
    /\ event = [type |-> "nvim_init"]
    /\ dec_args = <<>>
    /\ dec_junk = 0
    /\ dec_ret = NotCalled

\* A nvim_new that does not test nvim->exe: when ecore_exe_pipe_run fails
\* the instance is registered and returned all the same.
nvim_new_exe_unchecked ==
    /\ ~crashed /\ handlers /\ inst = "none"
    /\ \E fail \in {"calloc", "exe", "hash", "none"} :
         /\ inst' = CASE fail = "calloc" -> "none"
                      [] fail = "hash" -> "unreg"
                      [] OTHER -> "live"
         /\ exe' = IF fail \in {"calloc", "exe"} THEN "none" ELSE "running"
         /\ res' = CASE fail = "calloc" -> res
                     [] OTHER -> res \cup {"nvim", "mempool"}
         /\ event' = [type |-> "nvim_new", fail |-> fail,
                      ret |-> IF fail = "calloc" THEN "NULL" ELSE "nvim"]
    /\ request_id' = 0
    /\ requests' = <<>>
    /\ UNCHANGED <<handlers, crashed, allocated, issued, delivered>>
    /\ UNCHANGED decoder

\* nvim_new(): calloc fails, ecore_exe_pipe_run fails, eina_hash_direct_add
\* fails, or all succeed.  calloc gives the struct and msgpack_zone_init the
\* first chunk of the zone; msgpack_sbuffer_init allocates nothing.  When
\* ecore_exe_pipe_run fails only the struct is freed.
nvim_new ==
    /\ ~crashed /\ handlers /\ inst = "none"
    /\ \E fail \in {"calloc", "exe", "hash", "none"} :
         /\ inst' = CASE fail \in {"calloc", "exe"} -> "none"
                      [] fail = "hash" -> "unreg"
                      [] OTHER -> "live"
         /\ exe' = IF fail \in {"calloc", "exe"} THEN "none" ELSE "running"
         /\ res' = CASE fail = "calloc" -> res
                     [] fail = "exe" -> res \cup {"mempool"}
                     [] OTHER -> res \cup {"nvim", "mempool"}
         /\ event' = [type |-> "nvim_new", fail |-> fail,
                      ret |-> IF fail \in {"calloc", "exe"} THEN "NULL" ELSE "nvim"]
    /\ request_id' = 0
    /\ requests' = <<>>
    /\ UNCHANGED <<handlers, crashed, allocated, issued, delivered>>
    /\ UNCHANGED decoder

\* _nvim_free_cb: msgpack_sbuffer_destroy(&nvim->sbuffer); free(nvim)
_nvim_free_cb(held) == held \ {"sbuffer", "nvim"}

\* nvim_free(nvim): eina_hash_del_by_key calls _nvim_free_cb when the key
\* is in the table.
nvim_free ==
    /\ ~crashed /\ handlers /\ inst \in {"live", "unreg"}
    /\ inst' = IF inst = "live" THEN "freed" ELSE inst
    /\ res' = IF inst = "live" THEN _nvim_free_cb(res) ELSE res
    /\ event' = [type |-> "nvim_free"]
    /\ UNCHANGED <<exe, handlers, request_id, requests, crashed, allocated,
                   issued, delivered>>
    /\ UNCHANGED decoder

\* nvim_shutdown(): the handlers are deleted and eina_hash_free calls
\* _nvim_free_cb on every instance of the table.
nvim_shutdown ==
    /\ ~crashed /\ handlers
    /\ handlers' = FALSE
    /\ inst' = IF inst = "live" THEN "freed" ELSE inst
    /\ res' = IF inst = "live" THEN _nvim_free_cb(res) ELSE res
    /\ event' = [type |-> "nvim_shutdown"]
    /\ UNCHANGED <<exe, request_id, requests, crashed, allocated, issued, delivered>>
    /\ UNCHANGED decoder

\* A call of nvim_get_next_uid(nvim) on its own.
get_next_uid ==
    /\ ~crashed /\ inst \in {"live", "unreg"}
    /\ request_id < MaxUid
    /\ LET r == nvim_get_next_uid(request_id)
       IN  /\ request_id' = r.request_id
           /\ allocated' = Append(allocated, r.uid)
           /\ event' = [type |-> "nvim_get_next_uid", ret |-> r.uid]
    /\ UNCHANGED <<inst, exe, handlers, requests, crashed, res, issued, delivered>>
    /\ UNCHANGED decoder

\* An API call: a request is created with the next uid and appended to
\* nvim->requests; the call is packed into nvim->sbuffer, which allocates.
api_call ==
    /\ ~crashed /\ inst \in {"live", "unreg"}
    /\ request_id < MaxUid
    /\ \E type \in RequestTypes :
         LET r == nvim_get_next_uid(request_id)
             req == s_request(r.uid, type)
         IN  /\ request_id' = r.request_id
             /\ allocated' = Append(allocated, r.uid)
             /\ requests' = Append(requests, req)
             /\ issued' = Append(issued, req)
             /\ event' = [type |-> "api_call", ret |-> r.uid]
    /\ res' = res \cup {"sbuffer"}
    /\ UNCHANGED <<inst, exe, handlers, crashed, delivered>>
    /\ UNCHANGED decoder

\* _nvim_added_cb
_nvim_added_cb ==
    /\ ~crashed /\ handlers /\ exe = "running"
    /\ event' = [type |-> "added", log |-> <<"INF">>]
    /\ UNCHANGED <<inst, exe, handlers, request_id, requests, crashed, res,
                   allocated, issued, delivered>>
    /\ UNCHANGED decoder

\* A _nvim_deleted_cb that deletes the instance of the dead process from
\* the table.
_nvim_deleted_cb_frees ==
    /\ ~crashed /\ handlers /\ exe = "running"
    /\ exe' = "exited"
    /\ inst' = IF inst = "live" THEN "freed" ELSE inst
    /\ res' = IF inst = "live" THEN _nvim_free_cb(res) ELSE res
    /\ event' = [type |-> "deleted", log |-> <<"INF">>]
    /\ UNCHANGED <<handlers, request_id, requests, crashed,
                   allocated, issued, delivered>>
    /\ UNCHANGED decoder

\* _nvim_deleted_cb: the process died.
_nvim_deleted_cb ==
    /\ ~crashed /\ handlers /\ exe = "running"
    /\ exe' = "exited"
    /\ event' = [type |-> "deleted", log |-> <<"INF">>]
    /\ UNCHANGED <<inst, handlers, request_id, requests, crashed, res,
                   allocated, issued, delivered>>
    /\ UNCHANGED decoder

\* _nvim_received_error_cb
_nvim_received_error_cb ==
    /\ ~crashed /\ handlers /\ exe = "running"
    /\ event' = [type |-> "error", log |-> <<>>]
    /\ UNCHANGED <<inst, exe, handlers, request_id, requests, crashed, res,
                   allocated, issued, delivered>>
    /\ UNCHANGED decoder

\* msgpack_unpack allocates the elements of a non-empty array in the zone.
UsesZone(data) == Len(data) > 0 /\ data[1] >= 145 /\ data[1] <= 159

\* _nvim_received_data_cb
_nvim_received_data_cb ==
    /\ ~crashed /\ handlers /\ exe = "running"
    /\ \E data \in Chunks :
         IF inst # "live"
         THEN \* _nvim_get() is NULL: &nvim->mempool is no zone
              /\ crashed' = UsesZone(data)
              /\ event' = [type |-> "data", nvim |-> "NULL"]
              /\ UNCHANGED <<requests, delivered>>
         ELSE LET u == Unpacked[data]
              IN  \E deserialized \in (IF u.written THEN {u.result} ELSE Uninitialized),
                     junk \in Junk :
                    LET o == data_dispatch(requests, deserialized, junk)
                    IN  /\ requests' = o.requests
                        /\ delivered' = delivered \o o.calls
                        /\ event' = [type |-> "data", nvim |-> "nvim", ret |-> u.ret,
                                     deserialized |-> deserialized, log |-> o.log]
                        /\ UNCHANGED crashed
    /\ UNCHANGED <<inst, exe, handlers, request_id, res, allocated, issued>>
    /\ UNCHANGED decoder

Next ==
    \/ nvim_new
    \/ nvim_free
    \/ nvim_shutdown
    \/ get_next_uid
    \/ api_call
    \/ _nvim_added_cb
    \/ _nvim_deleted_cb
    \/ _nvim_received_error_cb
    \/ _nvim_received_data_cb

Spec == Init /\ [][Next]_vars

(***************************************************************************)
(* The typed decoders of pack.c on their own: an argument array is drawn,  *)
(* then one decoder is called on it.                                       *)
(***************************************************************************)
\* The longest argument array.
MaxArgs == 2

\* The elements an argument array is made of.
Elements ==
    { ObjBool(TRUE), ObjBool(FALSE), ObjPos(3), ObjPos(7), ObjNeg(-2),
      ObjNil, ObjStr(<<101>>), ObjStr(<<102, 103>>),
      ObjExt(E_NVIM_OBJECT_BUFFER, <<5>>), ObjExt(E_NVIM_OBJECT_WINDOW, <<5>>),
      ObjExt(E_NVIM_OBJECT_TAB, <<6>>), ObjExt(E_NVIM_OBJECT_BUFFER, <<1, 2>>),
      ObjExt(E_NVIM_OBJECT_BUFFER, <<1, 0, 0, 0, 0, 0, 0, 0, 0>>) }

ArgArrays == UNION { [1..n -> Elements] : n \in 0..MaxArgs }

\* The values an unset `via' member may hold in a decoder call.
DecJunk == Junk \cup {-1, 9}

\* The variables of the session.
session == <<inst, exe, handlers, request_id, requests, crashed, res,
             allocated, issued, delivered, event>>

DecInit ==
    /\ inst = "none"
    /\ exe = "none"
    /\ handlers = TRUE
    /\ request_id = 0
    /\ requests = <<>>
    /\ crashed = FALSE
    /\ res = {}
    /\ allocated = <<>>
    /\ issued = <<>>
    /\ delivered = <<>>
    /\ event = [type |-> "nvim_init"]
    /\ dec_args \in ArgArrays
    /\ dec_junk \in DecJunk
    /\ dec_ret = NotCalled

call_pack_boolean_get ==
    /\ dec_ret = NotCalled
    /\ dec_ret' = [fn |-> "pack_boolean_get",
                   value |-> pack_boolean_get(dec_args, dec_junk),
                   reads |-> pack_boolean_get_reads(dec_args)]
    /\ UNCHANGED <<dec_args, dec_junk, session>>

call_pack_position_get ==
    /\ dec_ret = NotCalled
    /\ dec_ret' = [fn |-> "pack_position_get",
                   value |-> pack_position_get(dec_args, dec_junk),
                   reads |-> pack_position_get_reads(dec_args)]
    /\ UNCHANGED <<dec_args, dec_junk, session>>

call_pack_int_get ==
    /\ dec_ret = NotCalled
    /\ dec_ret' = [fn |-> "pack_int_get",
                   value |-> pack_int_get(dec_args, dec_junk),
                   reads |-> pack_int_get_reads(dec_args)]
    /\ UNCHANGED <<dec_args, dec_junk, session>>

call_pack_stringshare_get ==
    /\ dec_ret = NotCalled
    /\ \E failed \in BOOLEAN :
         dec_ret' = [fn |-> "pack_stringshare_get",
                     value |-> pack_stringshare_get(dec_args, failed),
                     reads |-> pack_stringshare_get_reads(dec_args)]
    /\ UNCHANGED <<dec_args, dec_junk, session>>

call_pack_object_get ==
    /\ dec_ret = NotCalled
    /\ dec_ret' = [fn |-> "pack_object_get",
                   value |-> pack_object_get(dec_args),
                   reads |-> {}]
    /\ UNCHANGED <<dec_args, dec_junk, session>>

call_pack_window_get ==
    /\ dec_ret = NotCalled
    /\ dec_ret' = [fn |-> "pack_window_get",
                   value |-> pack_window_get(dec_args),
                   reads |-> {}]
    /\ UNCHANGED <<dec_args, dec_junk, session>>

\* When the payload is longer than the t_int the memcpy of _read_object_id
\* writes over the memory after `id': the call may crash, or return with
\* the first bytes of the payload in `id'.
call_pack_buffer_get ==
    /\ dec_ret = NotCalled
    /\ LET copied == IF pack_buffer_get_accepts(dec_args)
                     THEN {_read_object_id_copied(dec_args[1])} ELSE {}
       IN  /\ dec_ret' = [fn |-> "pack_buffer_get",
                          value |-> pack_buffer_get(dec_args),
                          reads |-> pack_buffer_get_reads(dec_args),
                          copied |-> copied,
                          ptr_reads |-> IF pack_buffer_get_accepts(dec_args)
                                        THEN {[elem |-> 1, index |-> k] :
                                                k \in _read_object_id_ptr_reads(dec_args[1])}
                                        ELSE {}]
           /\ crashed' \in IF \E n \in copied : n > sizeof_t_int
                            THEN BOOLEAN ELSE {FALSE}
    /\ UNCHANGED <<dec_args, dec_junk, inst, exe, handlers, request_id, requests, res,
                   allocated, issued, delivered, event>>

call_pack_tabpage_get ==
    /\ dec_ret = NotCalled
    /\ dec_ret' = [fn |-> "pack_tabpage_get",
                   value |-> pack_tabpage_get(dec_args),
                   reads |-> {}]
    /\ UNCHANGED <<dec_args, dec_junk, session>>

call_pack_tabpages_get ==
    /\ dec_ret = NotCalled
    /\ LET decoded == _pack_list_of_objects_get_decoded(dec_args)
           copied == {_read_object_id_copied(dec_args[i]) : i \in decoded}
       IN  /\ dec_ret' = [fn |-> "pack_tabpages_get",
                          value |-> pack_tabpages_get(dec_args),
                          reads |-> _pack_list_of_objects_get_reads(dec_args),
                          copied |-> copied,
                          ptr_reads |-> UNION { {[elem |-> i, index |-> k] :
                                                   k \in _pack_list_of_objects_get_ptr_reads(dec_args[i])} :
                                                 i \in decoded }]
           /\ crashed' \in IF \E n \in copied : n > sizeof_t_int
                            THEN BOOLEAN ELSE {FALSE}
    /\ UNCHANGED <<dec_args, dec_junk, inst, exe, handlers, request_id, requests, res,
                   allocated, issued, delivered, event>>

call_pack_windows_get ==
    /\ dec_ret = NotCalled
    /\ LET decoded == _pack_list_of_objects_get_decoded(dec_args)
           copied == {_read_object_id_copied(dec_args[i]) : i \in decoded}
       IN  /\ dec_ret' = [fn |-> "pack_windows_get",
                          value |-> pack_windows_get(dec_args),
                          reads |-> _pack_list_of_objects_get_reads(dec_args),
                          copied |-> copied,
                          ptr_reads |-> UNION { {[elem |-> i, index |-> k] :
                                                   k \in _pack_list_of_objects_get_ptr_reads(dec_args[i])} :
                                                 i \in decoded }]
           /\ crashed' \in IF \E n \in copied : n > sizeof_t_int
                            THEN BOOLEAN ELSE {FALSE}
    /\ UNCHANGED <<dec_args, dec_junk, inst, exe, handlers, request_id, requests, res,
                   allocated, issued, delivered, event>>

call_pack_buffers_get ==
    /\ dec_ret = NotCalled
    /\ LET decoded == _pack_list_of_objects_get_decoded(dec_args)
           copied == {_read_object_id_copied(dec_args[i]) : i \in decoded}
       IN  /\ dec_ret' = [fn |-> "pack_buffers_get",
                          value |-> pack_buffers_get(dec_args),
                          reads |-> _pack_list_of_objects_get_reads(dec_args),
                          copied |-> copied,
                          ptr_reads |-> UNION { {[elem |-> i, index |-> k] :
                                                   k \in _pack_list_of_objects_get_ptr_reads(dec_args[i])} :
                                                 i \in decoded }]
           /\ crashed' \in IF \E n \in copied : n > sizeof_t_int
                            THEN BOOLEAN ELSE {FALSE}
    /\ UNCHANGED <<dec_args, dec_junk, inst, exe, handlers, request_id, requests, res,
                   allocated, issued, delivered, event>>

call_pack_strings_get ==
    /\ dec_ret = NotCalled
    /\ \E failed \in SUBSET {i \in DOMAIN dec_args : dec_args[i].type = "STR"} :
         dec_ret' = [fn |-> "pack_strings_get",
                     value |-> pack_strings_get(dec_args, failed),
                     failed |-> failed,
                     reads |-> pack_strings_get_reads(dec_args)]
    /\ UNCHANGED <<dec_args, dec_junk, session>>

\* What _nvim_received_data_cb does from line 166 on with a value of
\* `deserialized', which is msgpack_unpack's result for a chunk or, when
\* msgpack_unpack wrote none, an uninitialised one; no request or request
\* 0 is pending.  The handler has no argument array.
call_data_dispatch ==
    /\ dec_ret = NotCalled
    /\ dec_args = <<>>
    /\ \E data \in Chunks, reqs \in {<<>>, <<s_request(0, "boolean")>>} :
         \E deserialized \in (IF Unpacked[data].written
                               THEN {Unpacked[data].result} ELSE Uninitialized) :
            dec_ret' = [fn |-> "data_dispatch",
                        deserialized |-> deserialized,
                        value |-> data_dispatch(reqs, deserialized, dec_junk),
                        reads |-> data_dispatch_reads(reqs, deserialized)]
    /\ UNCHANGED <<dec_args, dec_junk, session>>

DecNext ==
    \/ call_pack_boolean_get
    \/ call_pack_position_get
    \/ call_pack_int_get
    \/ call_pack_stringshare_get
    \/ call_pack_object_get
    \/ call_pack_window_get
    \/ call_pack_buffer_get
    \/ call_pack_tabpage_get
    \/ call_pack_tabpages_get
    \/ call_pack_windows_get
    \/ call_pack_buffers_get
    \/ call_pack_strings_get
    \/ call_data_dispatch

DecodeSpec == DecInit /\ [][DecNext]_vars
(***************************************************************************)
(* Vocabulary of the properties.                                           *)
(***************************************************************************)
Range(seq) == {seq[i] : i \in DOMAIN seq}

PendingUids == {r.uid : r \in Range(requests)}

\* The last operation was the data handler running on a registered instance.
DataHandled(e) == e.type = "data" /\ e.nvim = "nvim"

\* msgpack_unpack read one whole object from the chunk.
Decoded(e) == e.ret \in {"MSGPACK_UNPACK_SUCCESS", "MSGPACK_UNPACK_EXTRA_BYTES"}

\* d is a 4-field message whose first field is a non-negative integer.
HasKind(d) ==
    /\ d.type = "ARRAY"
    /\ Len(d.array) = 4
    /\ d.array[1].type = "POSITIVE_INTEGER"

\* d is a 4-field message whose first field is the non-negative integer k.
IsMessage(d, k) == HasKind(d) /\ d.array[1].u64 = k

\* d is a response whose id field is the integer n.
IsResponseTo(d, n) ==
    /\ IsMessage(d, 1)
    /\ d.array[2].type = "POSITIVE_INTEGER"
    /\ d.array[2].u64 = n

Payload(d) == d.array[4]

\* The handler calls made for the request of uid n.
CallsOf(n) == {i \in DOMAIN delivered : delivered[i].req.uid = n}

\* The step made no handler call and left the table and the counter alone.
Untouched ==
    /\ requests' = requests
    /\ delivered' = delivered
    /\ request_id' = request_id
    /\ allocated' = allocated

(***************************************************************************)
(* C1: a response resolves the pending request whose uid is the response's *)
(* id, wherever that request is in the list and whatever was processed     *)
(* before: that request alone leaves the table, and when the payload is an *)
(* array exactly the handler of that request is called, with the payload   *)
(* decoded by the decoder of that request.  Responses processed in the     *)
(* reverse of the order of issue are therefore handled like responses      *)
(* processed in the order of issue.                                        *)
(***************************************************************************)
C1_ResponseResolvesOwnRequest ==
    [][\A n \in 0..MaxUid :
         (/\ DataHandled(event')
          /\ IsResponseTo(event'.deserialized, n)
          /\ n \in PendingUids)
         => /\ requests' = SelectSeq(requests, LAMBDA r : r.uid # n)
            /\ Payload(event'.deserialized).type = "ARRAY" =>
                 /\ Len(delivered') = Len(delivered) + 1
                 /\ SubSeq(delivered', 1, Len(delivered)) = delivered
                 /\ LET call == delivered'[Len(delivered')]
                    IN  /\ call.req \in Range(issued)
                        /\ call.req.uid = n
                        /\ \E junk \in Junk :
                             call = nvim_api_response_dispatch(
                                        call.req, Payload(event'.deserialized).array, junk)
       ]_vars

\* Requests 0 and 1 were issued in that order, and the handler of request 1
\* was called before the handler of request 0, each with its own payload.
C1_Witness ==
    /\ Len(issued) >= 2 /\ issued[1].uid = 0 /\ issued[2].uid = 1
    /\ issued[1].type = "position" /\ issued[2].type = "boolean"
    /\ Len(delivered) = 2
    /\ delivered[1].req = issued[2] /\ delivered[1].data = TRUE
    /\ delivered[2].req = issued[1] /\ delivered[2].data = position_make(3, 7)

(***************************************************************************)
(* C2: every request that left the request table had its handler called    *)
(* exactly once, and no request's handler is called twice.                 *)
(***************************************************************************)
C2_DeliveredExactlyOnce ==
    \A r \in Range(issued) :
       /\ Cardinality(CallsOf(r.uid)) <= 1
       /\ r.uid \notin PendingUids => Cardinality(CallsOf(r.uid)) = 1

(***************************************************************************)
(* C3: once a response with id n was processed and its request removed, a  *)
(* response carrying the same id n finds no pending request: it is dropped *)
(* with a critical message, calls no handler and changes nothing.          *)
(***************************************************************************)
\* The uids of the requests a response resolved.
ResolvedUids ==
    {r.uid : r \in {q \in Range(issued) : q \notin Range(requests)}}
    \cup {delivered[i].req.uid : i \in DOMAIN delivered}

C3_SecondResponseNotFound ==
    [][\A n \in 0..MaxUid :
         (/\ DataHandled(event')
          /\ IsResponseTo(event'.deserialized, n)
          /\ n \in ResolvedUids)
         => /\ Untouched
            /\ event'.log = <<"CRI">>
       ]_vars

\* A response for request 0 was dropped after the handler of request 0 had
\* been called.
C3_Witness ==
    /\ DataHandled(event)
    /\ Decoded(event)
    /\ IsResponseTo(event.deserialized, 0)
    /\ event.log = <<"CRI">>
    /\ CallsOf(0) # {}

(***************************************************************************)
(* C4: the values nvim_get_next_uid returned on an instance are strictly   *)
(* increasing, so none is returned twice, whatever was processed between   *)
(* two of its calls.                                                       *)
(***************************************************************************)
C4_UidsStrictlyIncreasing ==
    \A i, j \in DOMAIN allocated : i < j => allocated[i] < allocated[j]

\* Uid 0 was allocated, a response then resolved request 0, and the next
\* call of nvim_get_next_uid returned 1.
C4_Witness ==
    /\ event.type \in {"api_call", "nvim_get_next_uid"}
    /\ event.ret = 1
    /\ Len(allocated) = 2
    /\ CallsOf(0) # {}

(***************************************************************************)
(* C5: no two pending requests of the table have the same uid.             *)
(***************************************************************************)
C5_OnePendingPerUid ==
    \A i, j \in DOMAIN requests : requests[i].uid = requests[j].uid => i = j

\* Two requests are pending at once.
C5_Witness == Len(requests) >= 2
(***************************************************************************)
(* C6: a response whose id is the uid of no pending request is dropped     *)
(* with a critical message: the program does not crash, the instance stays *)
(* registered, no handler is called, and the request table and the id      *)
(* counter are unchanged.                                                  *)
(***************************************************************************)
C6_UnknownIdDropped ==
    [][\A n \in 0..MaxUid :
         (/\ DataHandled(event')
          /\ IsResponseTo(event'.deserialized, n)
          /\ n \notin PendingUids)
         => /\ Untouched
            /\ event'.log = <<"CRI">>
            /\ ~crashed'
            /\ inst' = inst /\ inst' = "live"
       ]_vars

\* A decoded response for uid 1 was dropped while request 0 was pending.
C6_Witness ==
    /\ DataHandled(event)
    /\ Decoded(event)
    /\ IsResponseTo(event.deserialized, 1)
    /\ event.log = <<"CRI">>
    /\ PendingUids = {0}

(***************************************************************************)
(* C7: once the instance is destroyed (nvim_free, nvim_shutdown) or its    *)
(* process has exited, the handler of every issued request has been        *)
(* called, with its result or with a cancellation: no request stays        *)
(* without its consumer notified.                                          *)
(***************************************************************************)
C7_PendingCancelledOnDestroy ==
    (inst = "freed" \/ exe = "exited")
        => \A r \in Range(issued) : CallsOf(r.uid) # {}

(***************************************************************************)
(* C8: when msgpack_unpack cannot read a whole object from the chunk, the  *)
(* data handler removes no pending request, calls no handler and leaves    *)
(* the id counter unchanged.                                               *)
(***************************************************************************)
C8_UndecodableChunkDiscarded ==
    [][(DataHandled(event') /\ ~Decoded(event')) => Untouched]_vars

(***************************************************************************)
(* C9: a 4-field message is classified by its first field.  With the value *)
(* 1 it is handled as a response: the pending request of its id is         *)
(* removed.  With 2 or any other value it is logged as an error and        *)
(* discarded: no request is removed, no handler is called and the id       *)
(* counter is unchanged, even when its other fields are those of a         *)
(* response to a pending request.                                          *)
(***************************************************************************)
C9_ClassifiedByFirstField ==
    [][DataHandled(event') =>
         LET d == event'.deserialized
         IN  /\ \A n \in PendingUids :
                  IsResponseTo(d, n) =>
                     /\ Len(requests') = Len(requests) - 1
                     /\ "DBG" \in Range(event'.log)
             /\ (HasKind(d) /\ d.array[1].u64 # 1) =>
                     /\ Untouched
                     /\ event'.log = <<"ERR">>
       ]_vars

\* The message [2, 0, nil, []] was discarded while request 0 was pending.
C9_Witness ==
    /\ DataHandled(event)
    /\ Decoded(event)
    /\ IsMessage(event.deserialized, 2)
    /\ event.deserialized.array[2] = ObjPos(0)
    /\ event.log = <<"ERR">>
    /\ 0 \in PendingUids

(***************************************************************************)
(* C10: a response whose payload has the wrong shape for the result type   *)
(* of its request (a payload that is no array, or an array of the wrong    *)
(* length or element kinds) affects that request only: every other pending *)
(* request stays in the table, in the same place and unchanged, no handler *)
(* of another request is called, and the id counter is unchanged.          *)
(***************************************************************************)
\* The payload is not what the decoder of a request of this type expects.
WrongShape(type, payload) ==
    \/ payload.type # "ARRAY"
    \/ /\ type = "boolean"
       /\ ~(Len(payload.array) = 1 /\ payload.array[1].type = "BOOLEAN")
    \/ /\ type = "position"
       /\ ~(/\ Len(payload.array) = 2
            /\ \A i \in 1..2 : payload.array[i].type
                                   \in {"POSITIVE_INTEGER", "NEGATIVE_INTEGER"})

C11_ErrorFieldMustBeNil ==
    [][(/\ DataHandled(event')
        /\ IsMessage(event'.deserialized, 1)
        /\ event'.deserialized.array[3].type # "NIL")
       => delivered' = delivered
      ]_vars

(***************************************************************************)
(* C12: while the instance lives a pending request stays in the table      *)
(* unless a chunk that holds a response with the request's own uid is      *)
(* processed: not on a process-started, process-exited or stderr event,    *)
(* not on a notification, a malformed chunk or a response to another id.   *)
(***************************************************************************)
C12_PendingUntilOwnResponse ==
    [][\A i \in DOMAIN requests :
         (/\ inst' \in {"live", "unreg"}
          /\ ~(/\ DataHandled(event')
               /\ Decoded(event')
               /\ IsResponseTo(event'.deserialized, requests[i].uid)))
         => requests[i] \in Range(requests')
      ]_vars

(***************************************************************************)
(* C13: the process-started, process-exited and stderr events are          *)
(* informational: handling one neither frees nor unregisters the instance  *)
(* and changes neither the request table nor the id counter, and no        *)
(* handler is called.                                                      *)
(***************************************************************************)
C13_LifecycleEventsInformational ==
    [][event'.type \in {"added", "deleted", "error"}
       => /\ inst' = inst
          /\ res' = res
          /\ Untouched
      ]_vars

\* The process of a registered instance exited while a request was pending.
C13_Witness ==
    /\ event.type = "deleted"
    /\ exe = "exited"
    /\ inst = "live"
    /\ Len(requests) >= 1

(***************************************************************************)
(* C14: when ecore_exe_pipe_run fails nvim_new returns NULL and no         *)
(* instance is registered or left for the caller: the table of instances   *)
(* is as before the call and no process runs.                              *)
(***************************************************************************)
C14_SpawnFailureReturnsNull ==
    [][(event'.type = "nvim_new" /\ event'.fail = "exe")
       => /\ event'.ret = "NULL"
          /\ inst' = inst
          /\ inst' = "none"
          /\ exe' = "none"
          /\ "nvim" \notin res'
      ]_vars

\* nvim_new failed to run the process.
C14_Witness ==
    /\ event.type = "nvim_new"
    /\ event.fail = "exe"
    /\ event.ret = "NULL"
    /\ inst = "none"

(***************************************************************************)
(* C15: once the free callback of an instance has run, the output buffer   *)
(* and the decode workspace that nvim_new initialised are released.        *)
(***************************************************************************)
C15_FreeReleasesWorkspace ==
    inst = "freed" => res \cap {"sbuffer", "mempool"} = {}

(***************************************************************************)
(* Vocabulary of the decoder properties.                                   *)
(***************************************************************************)
\* Decoder `fn' has been called on dec_args.
Called(fn) == dec_ret.fn = fn

\* The element is of one of the two integer kinds of msgpack.
IsInteger(obj) == obj.type \in {"POSITIVE_INTEGER", "NEGATIVE_INTEGER"}

\* The integer an element of integer kind holds.
IntegerOf(obj) == IF obj.type = "POSITIVE_INTEGER" THEN obj.u64 ELSE obj.i64

\* The handle kind a list decoder is for.
KindOf(fn) ==
    CASE fn = "pack_buffers_get" -> E_NVIM_OBJECT_BUFFER
      [] fn = "pack_windows_get" -> E_NVIM_OBJECT_WINDOW
      [] fn = "pack_tabpages_get" -> E_NVIM_OBJECT_TAB

(***************************************************************************)
(* C16: pack_boolean_get on a one-element array holding the boolean b      *)
(* returns b; on any other array its outcome is none of the values a       *)
(* successful decoding returns.                                            *)
(***************************************************************************)
C16_BooleanDecoding ==
    Called("pack_boolean_get") =>
        IF Len(dec_args) = 1 /\ dec_args[1].type = "BOOLEAN"
        THEN dec_ret.value = dec_args[1].boolean
        ELSE dec_ret.value \notin BOOLEAN

C18_PositionRequiresIntegers ==
    (/\ Called("pack_position_get")
     /\ Len(dec_args) = 2
     /\ \E i \in 1..2 : ~IsInteger(dec_args[i]))
    => dec_ret.value = position_make(-1, -1)

(***************************************************************************)
(* C19: pack_buffer_get on a one-element array holding an EXT of type 1    *)
(* with the payload 0x05 returns 5; on an array of another length, on an   *)
(* element that is no EXT and on an EXT of another type it returns         *)
(* T_INT_INVALID.                                                          *)
(***************************************************************************)
C19_BufferHandleDecoding ==
    Called("pack_buffer_get") =>
        /\ dec_args = <<ObjExt(E_NVIM_OBJECT_BUFFER, <<5>>)>> => dec_ret.value = 5
        /\ (\/ Len(dec_args) # 1
            \/ dec_args[1].type # "EXT"
            \/ dec_args[1].ext_type # E_NVIM_OBJECT_BUFFER)
           => dec_ret.value = T_INT_INVALID

\* The buffer handle 5 was decoded.
C19_Witness ==
    /\ Called("pack_buffer_get")
    /\ dec_args = <<ObjExt(E_NVIM_OBJECT_BUFFER, <<5>>)>>
    /\ dec_ret.value = 5
    /\ dec_ret.value # T_INT_INVALID

(***************************************************************************)
(* C20: pack_buffers_get, pack_windows_get and pack_tabpages_get return no *)
(* id for an EXT element whose type is not the kind the decoder is for:    *)
(* when the array holds such an element the list returned has fewer ids    *)
(* than the array has elements.                                            *)
(***************************************************************************)
C20_ListDecodersCheckKind ==
    \A fn \in {"pack_buffers_get", "pack_windows_get", "pack_tabpages_get"} :
        (/\ Called(fn)
         /\ \E i \in DOMAIN dec_args :
               dec_args[i].type = "EXT" /\ dec_args[i].ext_type # KindOf(fn))
        => Len(dec_ret.value) < Len(dec_args)

(***************************************************************************)
(* C25: a response whose id is that of a pending request and whose fourth  *)
(* field is no array removes that request and calls no handler; a later    *)
(* response with the same id, its fourth field an array, finds no request  *)
(* and is logged as critical, with no handler called.                      *)
(***************************************************************************)
C25_RemovedBeforePayloadChecked ==
    [][\A n \in 0..MaxUid :
         (DataHandled(event') /\ IsResponseTo(event'.deserialized, n)) =>
            /\ (n \in PendingUids /\ Payload(event'.deserialized).type # "ARRAY")
               => /\ requests' = SelectSeq(requests, LAMBDA r : r.uid # n)
                  /\ Len(requests') = Len(requests) - 1
                  /\ delivered' = delivered
                  /\ event'.log = <<"DBG", "ERR">>
            /\ (/\ n \in {r.uid : r \in Range(issued)}
                /\ n \notin PendingUids
                /\ CallsOf(n) = {})
               => /\ Untouched
                  /\ event'.log = <<"CRI">>
      ]_vars

\* Request 0 left the table without a call of its handler, and the response
\* [1, 0, nil, [true]] that came later was logged as critical.
C25_Witness ==
    /\ DataHandled(event)
    /\ Decoded(event)
    /\ IsResponseTo(event.deserialized, 0)
    /\ Payload(event.deserialized) = ObjArray(<<ObjBool(TRUE)>>)
    /\ event.log = <<"CRI">>
    /\ 0 \in {r.uid : r \in Range(issued)}
    /\ 0 \notin PendingUids
    /\ CallsOf(0) = {}

(***************************************************************************)
(* C26: a value that is no array of exactly 4 elements, or whose first     *)
(* element is no non-negative integer, is logged as an error and           *)
(* discarded: no request is removed, no handler is called and the id       *)
(* counter is unchanged.  So is the 3-field notification [2, event, args]. *)
(***************************************************************************)
C26_MalformedMessageDiscarded ==
    [][(DataHandled(event') /\ ~HasKind(event'.deserialized))
       => /\ Untouched
          /\ event'.log = <<"ERR">>
      ]_vars

\* The notification [2, "e", []] was discarded while a request was pending.
C26_Witness ==
    /\ DataHandled(event)
    /\ Decoded(event)
    /\ event.deserialized = ObjArray(<<ObjPos(2), ObjStr(<<101>>), ObjArray(<<>>)>>)
    /\ event.log = <<"ERR">>
    /\ Len(requests) >= 1

(***************************************************************************)
(* C27: whenever the data handler runs, the process that wrote the data    *)
(* is the key of a registered instance: _nvim_get finds an s_nvim.         *)
(***************************************************************************)
C27_DataHandlerFindsInstance ==
    event.type = "data" => event.nvim = "nvim"

\* The strings of the elements of `args' that are strings, in their order.
RECURSIVE StringsOf(_)
StringsOf(args) ==
    IF args = <<>> THEN <<>>
    ELSE IF Head(args).type = "STR" THEN <<Head(args).str>> \o StringsOf(Tail(args))
    ELSE StringsOf(Tail(args))

(***************************************************************************)
(* C21: pack_strings_get skips the elements that are no strings and        *)
(* returns the strings of the others in their order (when every            *)
(* stringshare could be created); pack_buffers_get, pack_windows_get and   *)
(* pack_tabpages_get return the empty list as soon as one element is no    *)
(* EXT, whatever ids the elements before it hold.                          *)
(***************************************************************************)
C21_ListDecodersDiffer ==
    /\ (Called("pack_strings_get") /\ dec_ret.failed = {})
       => dec_ret.value = StringsOf(dec_args)
    /\ \A fn \in {"pack_buffers_get", "pack_windows_get", "pack_tabpages_get"} :
          (Called(fn) /\ \E i \in DOMAIN dec_args : dec_args[i].type # "EXT")
          => dec_ret.value = <<>>

\* The string after an element that is no string was returned.
C21_Witness ==
    /\ Called("pack_strings_get")
    /\ dec_args = <<ObjNil, ObjStr(<<102, 103>>)>>
    /\ dec_ret.failed = {}
    /\ dec_ret.value = << <<102, 103>> >>

(***************************************************************************)
(* C22: pack_int_get on a one-element array holding the integer v returns  *)
(* v; on any other array its outcome is no value that a successful         *)
(* decoding returns, that is no integer.                                   *)
(***************************************************************************)
C22_IntegerDecoding ==
    Called("pack_int_get") =>
        IF Len(dec_args) = 1 /\ IsInteger(dec_args[1])
        THEN dec_ret.value = IntegerOf(dec_args[1])
        ELSE dec_ret.value \notin Int

\* The single-handle decoder of a kind of handle.
DecoderOf(kind) ==
    CASE kind = E_NVIM_OBJECT_BUFFER -> "pack_buffer_get"
      [] kind = E_NVIM_OBJECT_WINDOW -> "pack_window_get"
      [] kind = E_NVIM_OBJECT_TAB -> "pack_tabpage_get"

(***************************************************************************)
(* C23: for each kind of handle (buffer, window, tabpage) the decoder of   *)
(* that kind, on a one-element array holding an EXT of the type of that    *)
(* kind, returns the id that the bytes of the payload hold.                *)
(***************************************************************************)
C23_EveryKindDecoded ==
    \A kind \in {E_NVIM_OBJECT_BUFFER, E_NVIM_OBJECT_WINDOW, E_NVIM_OBJECT_TAB} :
        (/\ Called(DecoderOf(kind))
         /\ Len(dec_args) = 1
         /\ dec_args[1].type = "EXT"
         /\ dec_args[1].ext_type = kind)
        => dec_ret.value = LittleEndian(dec_args[1].ptr)

(***************************************************************************)
(* C28: reconstructing the id of a handle from the payload of an EXT stays *)
(* inside the id and inside the payload: the memcpy of _read_object_id     *)
(* writes no more bytes than a t_int has, and no byte of the payload at an *)
(* index at or after its size is read, in pack_buffer_get and in the list  *)
(* decoders.                                                               *)
(***************************************************************************)
C28_HandlePayloadInBounds ==
    \A fn \in {"pack_buffer_get", "pack_buffers_get", "pack_windows_get",
               "pack_tabpages_get"} :
        Called(fn) =>
            /\ \A n \in dec_ret.copied : n <= sizeof_t_int
            /\ \A r \in dec_ret.ptr_reads : r.index < Len(dec_args[r.elem].ptr)

\* The elements of the array that the call was given: the argument array
\* of a decoder, the message of the data handler.
ArrayOfCall ==
    IF Called("data_dispatch")
    THEN IF dec_ret.deserialized.type = "ARRAY" THEN dec_ret.deserialized.array ELSE <<>>
    ELSE dec_args

=============================================================================
